---- MODULE Spec2Model ----
(***************************************************************************)
(* Model of the multi-agent conversation service: the /chat endpoint and   *)
(* the terminal REPL call process_question, which runs the compiled swarm  *)
(* workflow (two agents with handoff tools) against a checkpointer keyed   *)
(* by thread_id.  Text is a sequence of characters so that trimming is a   *)
(* real computation.                                                       *)
(***************************************************************************)
EXTENDS Integers, Sequences, FiniteSets, TLC

\* ---------------------------------------------------------------- bounds
NumReqs == 2
MaxInFlight == 2
RecursionLimit == 2
MaxDocs == 2

Reqs == 1..NumReqs
\* the browser: messages a chat component displays at most, and page loads
MaxUiMessages == 4
MaxInstances == 2

\* ------------------------------------------------------- program constants
CurriculumVitaeAgent == "CurriculumVitaeAgent"
SearchAgent == "SearchAgent"
Agents == {CurriculumVitaeAgent, SearchAgent}
default_active_agent_search == SearchAgent
default_active_agent == CurriculumVitaeAgent
CliThreadId == "cli-session"
ScriptThreadId == "1"
ExitWords_without_q == {<<"e", "x", "i", "t">>, <<"q", "u", "i", "t">>}
ExitWords == {<<"e", "x", "i", "t">>, <<"q", "u", "i", "t">>, <<"q">>}
ScriptExitWords == {<<"e", "x", "i", "t">>, <<"q", "u", "i", "t">>, <<"q">>}
QuestionMinLength == 2
ThreadIdMinLength == 1

\* ------------------------------------------------------------ input sets
SessionIds == {"session-u1", "session-u2"}
ThreadIds == {"s1", CliThreadId, ScriptThreadId} \cup SessionIds
ThreadIdInputs == {"", "s1"}
Lines == {<<>>, <<" ", "a", "b">>}
InputLines == Lines \cup {<<" ", " ">>, <<"a">>}
ReplLines == Lines \cup {<<" ", "Q", " ">>, <<"e", "X", "i", "t">>,
                         <<"q", "u", "i", "t">>}
RawTexts == {<<"x">>, <<" ", "x", " ">>}
Whitespace == {" "}

NoText == <<>>
NoResult == [ok |-> FALSE, agent_name |-> "", content |-> NoText,
             thread_id |-> "", kind |-> "none", cause |-> "none", status |-> 0]
NoException == [kind |-> "none", cause |-> "none"]
NoReturn == [req |-> 0, path |-> "none", thread |-> "", chain |-> <<>>,
             raised |-> NoException, outcome |-> NoResult, tools |-> {}]

\* ------------------------------------------------------------ pure helpers
RECURSIVE LStrip(_)
LStrip(t) == IF t # <<>> /\ Head(t) \in Whitespace THEN LStrip(Tail(t)) ELSE t

RECURSIVE RStrip(_)
RStrip(t) == IF t # <<>> /\ t[Len(t)] \in Whitespace
             THEN RStrip(SubSeq(t, 1, Len(t) - 1)) ELSE t

\* variant: only the leading whitespace is removed
Strip_leading_only(t) == LStrip(t)

\* str.strip()
Strip(t) == RStrip(LStrip(t))

\* str.lower() on the letters the input lines are written with
LowerChar(c) ==
    CASE c = "E" -> "e" [] c = "I" -> "i" [] c = "Q" -> "q"
      [] c = "T" -> "t" [] c = "U" -> "u" [] c = "X" -> "x"
      [] OTHER -> c

Lower(t) == [i \in 1..Len(t) |-> LowerChar(t[i])]

\* thread_id: str = Field(..., min_length=1)
ThreadIdLen(tid) == IF tid = "" THEN 0 ELSE 1

\* ChatRequest field validation (pydantic min_length, no trimming)
ChatRequestValid(question, tid) ==
    /\ Len(question) >= QuestionMinLength
    /\ ThreadIdLen(tid) >= ThreadIdMinLength

\* variant: the handoff tool names the agent that owns it
HandoffTarget_self(agent) == agent

\* variant: the handoff tool of SearchAgent names an agent the swarm lacks
HandoffTarget_unknown(agent) ==
    IF agent = CurriculumVitaeAgent THEN SearchAgent ELSE "WebAgent"

\* handoff tool of each agent names the other agent
HandoffTarget(agent) ==
    IF agent = CurriculumVitaeAgent THEN SearchAgent ELSE CurriculumVitaeAgent

\* the tool an agent has besides its handoff tool
AgentTool(agent) ==
    IF agent = CurriculumVitaeAgent THEN "knowledge" ELSE "search"

\* what the language model may do with that tool before it answers: the
\* prompts ask for a tool call, create_agent does not force one
ToolUses(agent) == {{}, {AgentTool(agent)}}

\* capabilities an agent may call during one invocation
Capabilities(agent) ==
    IF agent = CurriculumVitaeAgent THEN {"knowledge", "generation"}
    ELSE {"search", "generation"}

\* state of a thread that has no checkpoint yet
FreshState == [exists |-> FALSE, messages |-> <<>>, active_agent |-> "unset"]

\* variant: the router ignores the stored active agent
Route_always_default(state) == default_active_agent

\* swarm router: the stored active agent, else the default
Route(state) ==
    IF state.active_agent = "unset" THEN default_active_agent
    ELSE state.active_agent

HumanMessage(r, question) ==
    [type |-> "human", name |-> "user", content |-> question, req |-> r]
AIMessage(r, agent, text) ==
    [type |-> "ai", name |-> agent, content |-> text, req |-> r]
HandoffMessage(r, agent) ==
    [type |-> "handoff", name |-> agent, content |-> NoText, req |-> r]

\* agents the swarm can make active, starting from the agents in S and
\* following the handoff tools
RECURSIVE ReachableAgents(_)
ReachableAgents(S) ==
    LET T == S \cup {HandoffTarget(a) : a \in S}
    IN IF T = S THEN S ELSE ReachableAgents(T)

\* what main of the standalone script prints for result["messages"][-1]:
\* getattr(message, "name", "Unknown") and message.content.strip()
script_result(message) ==
    [ok |-> TRUE, agent_name |-> message.name,
     content |-> Strip(message.content), thread_id |-> "",
     kind |-> "none", cause |-> "none", status |-> 0]

\* ChatResponse built from result["messages"][-1]
ChatResponse(message, tid) ==
    [ok |-> TRUE, agent_name |-> message.name,
     content |-> Strip(message.content), thread_id |-> tid,
     kind |-> "none", cause |-> "none", status |-> 0]

Exception(kind, cause) == [kind |-> kind, cause |-> cause]

Failure(kind, cause, status) ==
    [ok |-> FALSE, agent_name |-> "", content |-> NoText,
     thread_id |-> "", kind |-> kind, cause |-> cause, status |-> status]

\* variant: the exception is swallowed into an answer
process_question_swallows(exc) ==
    [ok |-> TRUE, agent_name |-> "Unknown", content |-> NoText,
     thread_id |-> "", kind |-> "none", cause |-> "none", status |-> 0]

\* process_question has no handler: what ainvoke raises reaches its caller
process_question_raises(exc) == Failure(exc.kind, exc.cause, 0)

\* AGENT_DISPLAY.get(agent_name, fallback): the label the terminal loop
\* prints, the agent's name and what the table adds to it
AGENT_DISPLAY(agent_name) ==
    IF agent_name = CurriculumVitaeAgent
    THEN <<agent_name, "(Curriculum Analysis)">>
    ELSE IF agent_name = SearchAgent
    THEN <<agent_name, "(Web Search)">>
    ELSE <<agent_name, "">>

\* agent_display.get(agent, fallback) of the standalone script's main
agent_display(agent) ==
    IF agent = CurriculumVitaeAgent
    THEN <<agent, "(Curriculum Analysis)">>
    ELSE IF agent = SearchAgent
    THEN <<agent, "(Web Search)">>
    ELSE <<agent, "">>

\* variant: the entry path puts a name of its own on the answer
Deliver_relabels(p, outcome) == [outcome EXCEPT !.agent_name = "assistant"]

\* what the entry path hands to its client for an outcome of process_question:
\* /chat returns the response (200) or wraps the exception in a 500 that
\* keeps it as cause; the REPL prints the answer or logs the exception
Deliver(p, outcome) ==
    IF p = "rest"
    THEN [outcome EXCEPT !.status = IF outcome.ok THEN 200 ELSE 500]
    ELSE outcome

\* the exceptions ask_question_api raises
TimeoutException == [type |-> "TimeoutException", status |-> 0]
ConnectError == [type |-> "ConnectError", status |-> 0]
HTTPStatusError(status) == [type |-> "HTTPStatusError", status |-> status]

\* create_error_message: what the web client shows for a failed POST /chat,
\* chosen by the type of the exception and, for an HTTP status error, by
\* the status alone (503, 422, any other status)
create_error_message(error) ==
    IF error.type = "TimeoutException"
    THEN [text |-> "Request timeout", status |-> 0]
    ELSE IF error.type = "HTTPStatusError"
    THEN IF error.status = 503
         THEN [text |-> "Service unavailable", status |-> 503]
         ELSE IF error.status = 422
         THEN [text |-> "Invalid request format", status |-> 422]
         ELSE [text |-> "API error", status |-> error.status]
    ELSE IF error.type = "ConnectError"
    THEN [text |-> "Cannot connect to API", status |-> 0]
    ELSE [text |-> "Unexpected error", status |-> 0]

\* the result of a completed run, shaped by process_question or, in the
\* standalone script, by main itself
Shape(p, message, tid) ==
    IF p = "script" THEN script_result(message) ELSE ChatResponse(message, tid)

Last(s) == s[Len(s)]

IsPrefix(s, t) == Len(s) <= Len(t) /\ SubSeq(t, 1, Len(s)) = s

\* ------------------------------------------------------------------ state
VARIABLES
    store,      \* checkpointer: thread_id -> latest checkpointed state
    pc,         \* position of each request
    path,       \* entry path of each request in flight: "rest" or "cli"
    thread,     \* thread_id the request runs under
    question,   \* question handed to process_question
    loc,        \* the run's own copy of the graph state
    cur,        \* agent the run is about to invoke
    chain,      \* agents invoked so far in this turn
    last,       \* the return to a caller made by the latest step, if it made
                \* one: whose it was, the exception raised inside the run (if
                \* any) and what the caller got
    kind,       \* which program the process runs: "api", "cli" or "script"
    phase,      \* how far the process is: import, connect, setup, compile,
                \* serving, exited
    conn,       \* the process's PostgreSQL connection
    app_instance,   \* app_state.app_instance of the API: "None" or "set"
    db,         \* whether PostgreSQL can be reached: "up" or "down"
    docs,       \* number of loads of the PDF held by the Chroma collection
    ui,         \* the hook states of the browser's chat_app component
    http        \* the POST /chat the component's effect is awaiting

\* the state of the process around the calls
life == <<kind, phase, conn, app_instance, db, docs>>

\* the state of the browser client
client == <<ui, http>>

vars == <<store, pc, path, thread, question, loc, cur, chain, last,
          kind, phase, conn, app_instance, db, docs, ui, http>>

Running == {"load", "input", "agent"}

\* no call was made yet
InitCalls ==
    /\ store = [t \in ThreadIds |-> FreshState]
    /\ pc = [r \in Reqs |-> "idle"]
    /\ path = [r \in Reqs |-> "none"]
    /\ thread = [r \in Reqs |-> ""]
    /\ question = [r \in Reqs |-> NoText]
    /\ loc = [r \in Reqs |-> FreshState]
    /\ cur = [r \in Reqs |-> "none"]
    /\ chain = [r \in Reqs |-> <<>>]
    /\ last = NoReturn

\* the value of pending_question when no question waits
None == <<"None">>

\* no request of the component is awaited
NoHttp == [active |-> FALSE, req |-> 0, thread_id |-> ""]

\* no browser has opened the page
NoBrowser ==
    /\ ui = [instance |-> 0, thread_id |-> "", messages |-> <<>>,
             is_loading |-> FALSE, pending_question |-> None,
             input_value |-> NoText]
    /\ http = NoHttp

\* the API and the terminal loop were started and serve: the knowledge base
\* is loaded, the connection is open, the workflow is compiled
Started ==
    /\ kind = "any" /\ phase = "serving"
    /\ conn = "open" /\ app_instance = "set"
    /\ db = "up" /\ docs = 1
    /\ NoBrowser

Init == InitCalls /\ Started

InFlight == {r \in Reqs : pc[r] \in Running}

\* requests are numbered in the order in which they arrive
Arrives(r) ==
    /\ pc[r] = "idle"
    /\ \A o \in Reqs : o < r => pc[o] # "idle"
    /\ Cardinality(InFlight) < MaxInFlight

\* the handler returns to its caller: the request's locals are gone; used
\* are the tools the answering agent called before its answer
ReturnAfter(r, p, tid, ch, exc, outcome, used) ==
    /\ pc' = [pc EXCEPT ![r] = "done"]
    /\ last' = [req |-> r, path |-> p, thread |-> tid, chain |-> ch,
                raised |-> exc, outcome |-> outcome, tools |-> used]
    /\ path' = [path EXCEPT ![r] = "none"]
    /\ thread' = [thread EXCEPT ![r] = ""]
    /\ question' = [question EXCEPT ![r] = NoText]
    /\ loc' = [loc EXCEPT ![r] = FreshState]
    /\ cur' = [cur EXCEPT ![r] = "none"]
    /\ chain' = [chain EXCEPT ![r] = <<>>]

\* a return without an answer of an agent
Return(r, p, tid, ch, exc, outcome) ==
    ReturnAfter(r, p, tid, ch, exc, outcome, {})

\* ainvoke raises after the agents in ch ran: the exception travels through
\* process_question to the entry path
Raise(r, ch, exc) ==
    Return(r, path[r], thread[r], ch, exc,
           Deliver(path[r], process_question_raises(exc)))

\* variant: /chat never finds the service not ready
ServiceNotReady_never == FALSE

\* if app_state.app_instance is None
ServiceNotReady == app_instance = "None"

\* POST /chat: request validation, the readiness check, then process_question
\* is entered
chat(r, q, tid) ==
    /\ Arrives(r)
    /\ IF ~ChatRequestValid(q, tid)
       THEN Return(r, "rest", tid, <<>>, NoException,
                   Failure("input", "validation", 422))
       ELSE IF ServiceNotReady
       THEN Return(r, "rest", tid, <<>>, NoException,
                   Failure("unavailable", "Service not ready", 503))
       ELSE /\ path' = [path EXCEPT ![r] = "rest"]
            /\ thread' = [thread EXCEPT ![r] = tid]
            /\ question' = [question EXCEPT ![r] = q]
            /\ pc' = [pc EXCEPT ![r] = "load"]
            /\ last' = NoReturn
            /\ UNCHANGED <<loc, cur, chain>>
    /\ UNCHANGED <<store, life>>

\* what run_interactive_loop does with a line: leave, skip it, or call
\* process_question with the trimmed line
cli_decision(line) ==
    IF Lower(Strip(line)) \in ExitWords
    THEN [what |-> "exit", question |-> NoText]
    ELSE IF Strip(line) = NoText
    THEN [what |-> "skip", question |-> NoText]
    ELSE [what |-> "invoke", question |-> Strip(line)]

\* variant: the script compares the trimmed line as it was typed
script_decision_without_lower(line) ==
    IF Strip(line) \in ScriptExitWords
    THEN [what |-> "exit", question |-> NoText]
    ELSE IF Strip(line) = NoText
    THEN [what |-> "skip", question |-> NoText]
    ELSE [what |-> "invoke", question |-> Strip(line)]

\* what the loop of the standalone script's main does with a line
script_decision(line) ==
    IF Lower(Strip(line)) \in ScriptExitWords
    THEN [what |-> "exit", question |-> NoText]
    ELSE IF Strip(line) = NoText
    THEN [what |-> "skip", question |-> NoText]
    ELSE [what |-> "invoke", question |-> Strip(line)]

\* the loop was left: main leaves its "async with" (cli) or runs its
\* "finally" (script), which closes the connection, and the process ends
LoopEnds ==
    /\ phase' = "exited"
    /\ conn' = "closed"
    /\ UNCHANGED <<kind, app_instance, db, docs, client>>

\* one iteration of a terminal loop that decided d for the line it read:
\* leave on an exit word, skip a blank line, else run the workflow under tid
ReplIteration(r, d, p, tid) ==
    /\ Arrives(r)
    /\ \A o \in Reqs : path[o] # p
    /\ IF d.what = "exit"
       THEN /\ Return(r, p, tid, <<>>, NoException,
                      Failure("exit", "exit", 0))
            /\ LoopEnds
       ELSE IF d.what = "skip"
       THEN /\ Return(r, p, tid, <<>>, NoException,
                      Failure("input", "blank", 0))
            /\ UNCHANGED <<life, client>>
       ELSE /\ path' = [path EXCEPT ![r] = p]
            /\ thread' = [thread EXCEPT ![r] = tid]
            /\ question' = [question EXCEPT ![r] = d.question]
            /\ pc' = [pc EXCEPT ![r] = "load"]
            /\ last' = NoReturn
            /\ UNCHANGED <<loc, cur, chain, life, client>>
    /\ UNCHANGED store

\* one iteration of the loop of cli.py, with its default thread_id
run_interactive_loop(r, line) ==
    ReplIteration(r, cli_decision(line), "cli", CliThreadId)

\* one iteration of the loop inside main of the standalone script
main(r, line) ==
    ReplIteration(r, script_decision(line), "script", ScriptThreadId)

\* ainvoke, first part: read the thread's latest checkpoint
LoadCheckpoint(r) ==
    /\ pc[r] = "load"
    /\ loc' = [loc EXCEPT ![r] = store[thread[r]]]
    /\ pc' = [pc EXCEPT ![r] = "input"]
    /\ last' = NoReturn
    /\ UNCHANGED <<store, path, thread, question, cur, chain, life, client>>

\* variant: the question is added to the history twice
WithInput_twice(r, state) ==
    [exists |-> TRUE,
     messages |-> state.messages \o <<HumanMessage(r, question[r]),
                                      HumanMessage(r, question[r])>>,
     active_agent |-> state.active_agent]

\* the state a run holds after its input was applied
WithInput(r, state) ==
    [exists |-> TRUE,
     messages |-> Append(state.messages, HumanMessage(r, question[r])),
     active_agent |-> state.active_agent]

\* variant: the checkpoint is written without regard to the thread_id
PutCheckpoint_any_thread(tid, state) == [t \in ThreadIds |-> state]

\* checkpoint write: the run's state becomes the thread's latest checkpoint
PutCheckpoint(tid, state) == [store EXCEPT ![tid] = state]

\* ainvoke, second part: the user message is added and checkpointed,
\* the router picks the agent to start with
PutInput(r) ==
    /\ pc[r] = "input"
    /\ loc' = [loc EXCEPT ![r] = WithInput(r, loc[r])]
    /\ store' = PutCheckpoint(thread[r], WithInput(r, loc[r]))
    /\ cur' = [cur EXCEPT ![r] = Route(loc[r])]
    /\ pc' = [pc EXCEPT ![r] = "agent"]
    /\ last' = NoReturn
    /\ UNCHANGED <<path, thread, question, chain, life, client>>

\* variant: the answer is put in front of the history
Answered_prepends(r, text) ==
    [exists |-> TRUE,
     messages |-> <<AIMessage(r, cur[r], text)>> \o loc[r].messages,
     active_agent |-> loc[r].active_agent]

\* the run's state after the active agent answered
Answered(r, text) ==
    [exists |-> TRUE,
     messages |-> Append(loc[r].messages, AIMessage(r, cur[r], text)),
     active_agent |-> loc[r].active_agent]

\* variant: the agent handed to gets the handoff alone, not the history
HandedOff_drops_question(r) ==
    [exists |-> TRUE,
     messages |-> <<HandoffMessage(r, cur[r])>>,
     active_agent |-> HandoffTarget(cur[r])]

\* the run's state after the active agent called its handoff tool
HandedOff(r) ==
    [exists |-> TRUE,
     messages |-> Append(loc[r].messages, HandoffMessage(r, cur[r])),
     active_agent |-> HandoffTarget(cur[r])]

\* the active agent answers: its message is checkpointed and
\* process_question shapes the last message into a ChatResponse
AgentAnswers(r, text, used) ==
    /\ pc[r] = "agent"
    /\ Len(chain[r]) < RecursionLimit
    /\ used \in ToolUses(cur[r])
    /\ store' = PutCheckpoint(thread[r], Answered(r, text))
    /\ ReturnAfter(r, path[r], thread[r], Append(chain[r], cur[r]),
                   NoException,
                   Deliver(path[r],
                       Shape(path[r], Last(Answered(r, text).messages),
                             thread[r])),
                   used)
    /\ UNCHANGED <<life, client>>

\* the active agent calls its handoff tool: active_agent is updated and
\* checkpointed, the other agent runs next in the same turn
AgentHandsOff(r) ==
    /\ pc[r] = "agent"
    /\ Len(chain[r]) < RecursionLimit
    /\ chain' = [chain EXCEPT ![r] = Append(@, cur[r])]
    /\ loc' = [loc EXCEPT ![r] = HandedOff(r)]
    /\ store' = PutCheckpoint(thread[r], HandedOff(r))
    /\ cur' = [cur EXCEPT ![r] = HandoffTarget(cur[r])]
    /\ last' = NoReturn
    /\ UNCHANGED <<pc, path, thread, question, life, client>>

\* a capability of the active agent raises: the exception leaves ainvoke
\* and process_question as it is
AgentFails(r, cap) ==
    /\ pc[r] = "agent"
    /\ Len(chain[r]) < RecursionLimit
    /\ cap \in Capabilities(cur[r])
    /\ Raise(r, Append(chain[r], cur[r]), Exception("capability", cap))
    /\ UNCHANGED <<store, life, client>>

\* the store cannot be reached when the run reads or writes a checkpoint
StoreFails(r) ==
    /\ pc[r] \in Running
    /\ pc[r] = "agent" => Len(chain[r]) < RecursionLimit
    /\ Raise(r, IF pc[r] = "agent" THEN Append(chain[r], cur[r]) ELSE chain[r],
             Exception("store", "store"))
    /\ UNCHANGED <<store, life, client>>

\* the graph's step limit is reached before any agent answered
RecursionError(r) ==
    /\ pc[r] = "agent"
    /\ Len(chain[r]) >= RecursionLimit
    /\ Raise(r, chain[r], Exception("recursion", "recursion_limit"))
    /\ UNCHANGED <<store, life, client>>

Next ==
    \/ \E r \in Reqs, q \in Lines, tid \in ThreadIdInputs :
          chat(r, q, tid) /\ UNCHANGED client
    \/ \E r \in Reqs, line \in Lines : run_interactive_loop(r, line)
    \/ \E r \in Reqs : LoadCheckpoint(r)
    \/ \E r \in Reqs : PutInput(r)
    \/ \E r \in Reqs, text \in RawTexts, used \in SUBSET {"knowledge", "search"} :
          AgentAnswers(r, text, used)
    \/ \E r \in Reqs : AgentHandsOff(r)
    \/ \E r \in Reqs, cap \in {"knowledge", "search", "generation"} :
          AgentFails(r, cap)
    \/ \E r \in Reqs : StoreFails(r)
    \/ \E r \in Reqs : RecursionError(r)

Spec == Init /\ [][Next]_vars

\* the first two requests, with every kind of input line
InputReqs == {1, 2}

NextInput ==
    \/ \E r \in Reqs, q \in InputLines, tid \in ThreadIdInputs :
          r \in InputReqs /\ chat(r, q, tid) /\ UNCHANGED client
    \/ \E r \in Reqs, line \in InputLines :
          r \in InputReqs /\ run_interactive_loop(r, line)
    \/ \E r \in Reqs : LoadCheckpoint(r)
    \/ \E r \in Reqs : PutInput(r)
    \/ \E r \in Reqs, text \in RawTexts, used \in SUBSET {"knowledge", "search"} :
          AgentAnswers(r, text, used)
    \/ \E r \in Reqs : AgentHandsOff(r)
    \/ \E r \in Reqs, cap \in {"knowledge", "search", "generation"} :
          AgentFails(r, cap)
    \/ \E r \in Reqs : StoreFails(r)
    \/ \E r \in Reqs : RecursionError(r)

SpecInput == Init /\ [][NextInput]_vars

\* ------------------------------------------------- the process around
\* everything the calls own
calls == <<store, pc, path, thread, question, loc, cur, chain>>

\* a process of one of the three programs starts: nothing is loaded or
\* connected yet, the Chroma collection is empty
InitProcess ==
    /\ InitCalls
    /\ kind \in {"api", "cli", "script"}
    /\ phase = "import"
    /\ conn = "none" /\ app_instance = "None"
    /\ db \in {"up", "down"}
    /\ docs = 0
    /\ NoBrowser

\* load_rag_tool up to its decision: the collection's count is read
\* (check = "ok") or reading it raises; the embeddings are reused only when
\* the count was read and is positive
load_rag_tool(check) ==
    /\ phase = "import"
    /\ phase' = IF check = "ok" /\ docs > 0 THEN "connect" ELSE "add"
    /\ last' = NoReturn
    /\ UNCHANGED <<client, calls, kind, conn, app_instance, db, docs>>

\* rag_tool.add: the PDF is embedded and stored (a collection that holds
\* it already either gets it once more or keeps its count), or add raises
\* and the import fails
rag_tool_add(ok) ==
    /\ phase = "add"
    /\ IF ok
       THEN /\ \/ docs < MaxDocs /\ docs' = docs + 1
               \/ docs > 0 /\ docs' = docs
            /\ phase' = "connect"
       ELSE /\ phase' = "exited"
            /\ docs' = docs
    /\ last' = NoReturn
    /\ UNCHANGED <<client, calls, kind, conn, app_instance, db>>

\* psycopg.AsyncConnection.connect: raises when PostgreSQL is unreachable
connect ==
    /\ phase = "connect"
    /\ IF db = "up"
       THEN conn' = "open" /\ phase' = "setup"
       ELSE conn' = conn /\ phase' = "exited"
    /\ last' = NoReturn
    /\ UNCHANGED <<client, calls, kind, app_instance, db, docs>>

\* checkpointer.setup(): inside the try/finally of get_checkpointer for the
\* API and the CLI, before the try of main in the standalone script
setup(ok) ==
    /\ phase = "setup"
    /\ IF ok /\ db = "up"
       THEN conn' = conn /\ phase' = "compile"
       ELSE /\ conn' = IF kind = "script" THEN conn ELSE "closed"
            /\ phase' = "exited"
    /\ last' = NoReturn
    /\ UNCHANGED <<client, calls, kind, app_instance, db, docs>>

\* create_app / workflow.compile: inside "async with" in the CLI, after a
\* bare __aenter__ in the API lifespan, before the try in the script
create_app(ok) ==
    /\ phase = "compile"
    /\ IF ok
       THEN /\ phase' = "serving"
            /\ conn' = conn
            /\ app_instance' = IF kind = "api" THEN "set" ELSE app_instance
       ELSE /\ phase' = "exited"
            /\ conn' = IF kind = "cli" THEN "closed" ELSE conn
            /\ app_instance' = app_instance
    /\ last' = NoReturn
    /\ UNCHANGED <<client, calls, kind, db, docs>>

\* the API shuts down after its calls returned: the lifespan resumes after
\* its yield and leaves the checkpointer context, which closes the
\* connection; app_instance is left as it is
shutdown ==
    /\ kind = "api" /\ phase = "serving"
    /\ InFlight = {}
    /\ phase' = "exited"
    /\ conn' = "closed"
    /\ last' = NoReturn
    /\ UNCHANGED <<client, calls, kind, app_instance, db, docs>>

\* Ctrl-C at the prompt of the terminal loop
KeyboardInterrupt ==
    /\ kind \in {"cli", "script"} /\ phase = "serving"
    /\ InFlight = {}
    /\ LoopEnds
    /\ last' = NoReturn
    /\ UNCHANGED calls

\* the program is started again: a new process, the same PostgreSQL and
\* Chroma data
restart ==
    /\ phase = "exited"
    /\ phase' = "import"
    /\ conn' = "none" /\ app_instance' = "None"
    /\ last' = NoReturn
    /\ UNCHANGED <<client, calls, kind, db, docs>>

DbDown ==
    /\ db = "up" /\ db' = "down"
    /\ last' = NoReturn
    /\ UNCHANGED <<client, calls, kind, phase, conn, app_instance, docs>>

DbUp ==
    /\ db = "down" /\ db' = "up"
    /\ last' = NoReturn
    /\ UNCHANGED <<client, calls, kind, phase, conn, app_instance, docs>>

\* a checkpoint can be read or written over the process's connection
StoreOk == conn = "open" /\ db = "up"

\* the checkpointer's query fails because PostgreSQL is unreachable or the
\* connection is no longer usable; psycopg marks a connection that lost its
\* server as closed and never reconnects it
StoreUnavailable(r) ==
    /\ pc[r] \in Running
    /\ pc[r] = "agent" => Len(chain[r]) < RecursionLimit
    /\ ~StoreOk
    /\ Raise(r, IF pc[r] = "agent" THEN Append(chain[r], cur[r]) ELSE chain[r],
             Exception("store", "store"))
    /\ conn' = IF conn = "open" THEN "broken" ELSE conn
    /\ UNCHANGED <<client, store, kind, phase, app_instance, db, docs>>

\* HealthResponse of GET /health
HealthResponse ==
    [ok |-> TRUE, agent_name |-> "", content |-> NoText, thread_id |-> "",
     kind |-> "health",
     cause |-> IF app_instance = "None" THEN "degraded" ELSE "healthy",
     status |-> 200]

\* GET /health
health ==
    /\ last' = [req |-> 0, path |-> "health", thread |-> "", chain |-> <<>>,
                raised |-> NoException, outcome |-> HealthResponse,
                tools |-> {}]
    /\ UNCHANGED <<calls, life, client>>

\* phases in which the FastAPI application object can be handed requests:
\* from the end of the import on (a server that has not run the lifespan
\* startup, or runs none, reaches the handlers with app_instance unset)
Listening == {"connect", "setup", "compile", "serving"}

\* the calls followed through the life of a process, one at a time
ProcReqs == {1, 2}

NextProcess ==
    \/ \E check \in {"ok", "raises"} : load_rag_tool(check)
    \/ \E ok \in BOOLEAN : rag_tool_add(ok)
    \/ connect
    \/ \E ok \in BOOLEAN : setup(ok)
    \/ \E ok \in BOOLEAN : create_app(ok)
    \/ shutdown
    \/ KeyboardInterrupt
    \/ restart
    \/ DbDown
    \/ DbUp
    \/ kind = "api" /\ phase \in Listening /\ health
    \/ \E r \in Reqs, q \in Lines, tid \in ThreadIdInputs :
          /\ r \in ProcReqs /\ InFlight = {}
          /\ kind = "api" /\ phase \in Listening
          /\ chat(r, q, tid)
          /\ UNCHANGED client
    \/ \E r \in Reqs, line \in ReplLines :
          /\ r \in ProcReqs
          /\ kind = "cli" /\ phase = "serving"
          /\ run_interactive_loop(r, line)
    \/ \E r \in Reqs, line \in ReplLines :
          /\ r \in ProcReqs
          /\ kind = "script" /\ phase = "serving"
          /\ main(r, line)
    \/ \E r \in Reqs : StoreOk /\ LoadCheckpoint(r)
    \/ \E r \in Reqs : StoreOk /\ PutInput(r)
    \/ \E r \in Reqs, text \in RawTexts, used \in SUBSET {"knowledge", "search"} :
          StoreOk /\ AgentAnswers(r, text, used)
    \/ \E r \in Reqs : StoreOk /\ AgentHandsOff(r)
    \/ \E r \in Reqs, cap \in {"knowledge", "search", "generation"} :
          AgentFails(r, cap)
    \/ \E r \in Reqs : StoreUnavailable(r)
    \/ \E r \in Reqs : RecursionError(r)

SpecProcess == InitProcess /\ [][NextProcess]_vars

\* ------------------------------------------------- the browser client
\* what the user can have typed into the input box
UiInputs == {<<" ">>, <<" ", "a", "b">>}

UserMessage(message) ==
    [role |-> "user", content |-> message, agent |-> "None"]
AssistantMessage(content, agent) ==
    [role |-> "assistant", content |-> content, agent |-> agent]

\* the assistant message for an exception of ask_question_api
ErrorMessage(error) ==
    AssistantMessage(<<create_error_message(error).text>>, "None")

\* the API is up and serves a browser, or the terminal loop is at its prompt
InitUi ==
    /\ InitCalls
    /\ kind \in {"api", "cli"} /\ phase = "serving"
    /\ conn = "open" /\ app_instance = "set"
    /\ db = "up" /\ docs = 1
    /\ NoBrowser

\* the page is loaded: chat_app is mounted with the initial hook states; the
\* initializer of the thread_id state draws a fresh uuid once.  A component
\* that was mounted before is unmounted and the task of its effect cancelled.
chat_app(uuid) ==
    /\ ui.instance < MaxInstances
    /\ uuid # ui.thread_id
    /\ ui' = [instance |-> ui.instance + 1, thread_id |-> uuid,
              messages |-> <<>>, is_loading |-> FALSE,
              pending_question |-> None, input_value |-> NoText]
    /\ http' = NoHttp
    /\ last' = NoReturn
    /\ UNCHANGED <<calls, life>>

\* chat_input.handle_input_change
handle_input_change(text) ==
    /\ ui.instance > 0
    /\ ui' = [ui EXCEPT !.input_value = text]
    /\ last' = NoReturn
    /\ UNCHANGED <<http, calls, life>>

\* chat_app.handle_send applied to the hook states u
handle_send(u, message) ==
    [u EXCEPT !.messages = Append(@, UserMessage(message)),
              !.is_loading = TRUE,
              !.pending_question = message]

\* variant: a question is accepted while another one is loading
CanSend_while_loading(u) == Strip(u.input_value) # NoText

\* the condition of handle_submit
CanSend(u) == Strip(u.input_value) # NoText /\ ~u.is_loading

\* chat_input.handle_submit (the button, or Enter without Shift)
handle_submit ==
    /\ ui.instance > 0
    /\ Len(ui.messages) + 2 <= MaxUiMessages
    /\ ui' = IF CanSend(ui)
             THEN [handle_send(ui, Strip(ui.input_value))
                       EXCEPT !.input_value = NoText]
             ELSE ui
    /\ last' = NoReturn
    /\ UNCHANGED <<http, calls, life>>

\* variant: each request carries an id made for it
RequestThreadId_per_request(u) ==
    IF Len(u.messages) > 2
    THEN CHOOSE s \in SessionIds : s # u.thread_id
    ELSE u.thread_id

\* the thread id the effect passes to ask_question_api
RequestThreadId(u) == u.thread_id

\* the effect on pending_question, up to its await: ask_question_api posts
\* the question and the component's thread id to /chat
process_pending_question(r) ==
    /\ ui.pending_question # None
    /\ ~http.active
    /\ chat(r, ui.pending_question, RequestThreadId(ui))
    /\ http' = [active |-> TRUE, req |-> r, thread_id |-> RequestThreadId(ui)]
    /\ UNCHANGED ui

\* the rest of the effect once the await ended with message: the message is
\* appended; finally is_loading and pending_question are reset
EffectEnds(message) ==
    /\ ui' = [ui EXCEPT !.messages = Append(@, message),
                        !.is_loading = FALSE,
                        !.pending_question = None]
    /\ http' = NoHttp
    /\ last' = NoReturn
    /\ UNCHANGED <<calls, life>>

\* the response to the awaited POST is the return made by the latest step
Delivering ==
    http.active /\ last.path = "rest" /\ last.req = http.req

\* ask_question_api gets the response: the JSON of a 200, or
\* raise_for_status raises for another status
ask_question_api_returns ==
    /\ Delivering
    /\ EffectEnds(IF last.outcome.ok
                  THEN AssistantMessage(last.outcome.content,
                                        last.outcome.agent_name)
                  ELSE ErrorMessage(HTTPStatusError(last.outcome.status)))

\* no response within the client's timeout: the request goes on in the API
ask_question_api_timeout ==
    /\ http.active /\ ~Delivering
    /\ EffectEnds(ErrorMessage(TimeoutException))

\* the POST cannot reach the API
ask_question_api_connect_error ==
    /\ ui.pending_question # None
    /\ ~http.active
    /\ EffectEnds(ErrorMessage(ConnectError))

\* the requests a client makes, one turn after the other
UiReqs == {1, 2}

\* the effect runs after the render that follows handle_send
EffectStarts ==
    \/ \E r \in UiReqs : process_pending_question(r)
    \/ ask_question_api_connect_error

\* the await of ask_question_api ends
EffectCompletes ==
    \/ ask_question_api_returns
    \/ ask_question_api_timeout

\* a client and the service, whose agents answer or fail without handing
\* off; the response of /chat reaches the browser before anything else
\* happens
NextUi ==
    \/ \E uuid \in SessionIds : kind = "api" /\ ~Delivering /\ chat_app(uuid)
    \/ \E text \in UiInputs : ~Delivering /\ handle_input_change(text)
    \/ ~Delivering /\ handle_submit
    \/ \E r \in UiReqs : ~Delivering /\ process_pending_question(r)
    \/ ask_question_api_returns
    \/ ask_question_api_timeout
    \/ ask_question_api_connect_error
    \/ \E r \in UiReqs, line \in Lines :
          /\ kind = "cli" /\ phase = "serving"
          /\ run_interactive_loop(r, line)
    \/ \E r \in Reqs : ~Delivering /\ LoadCheckpoint(r)
    \/ \E r \in Reqs : ~Delivering /\ PutInput(r)
    \/ \E r \in Reqs : ~Delivering /\ AgentAnswers(r, <<" ", "x", " ">>, {})
    \/ \E r \in Reqs : ~Delivering /\ AgentFails(r, "generation")

SpecUi == InitUi /\ [][NextUi]_vars

\* the effect is scheduled after the render and its await ends (the client's
\* timeout bounds it)
SpecUiLive ==
    /\ SpecUi
    /\ WF_vars(EffectStarts)
    /\ WF_vars(EffectCompletes)

TypeOK ==
    /\ \A r \in Reqs : pc[r] \in {"idle", "done"} \cup Running
    /\ \A r \in Reqs : Len(chain[r]) <= RecursionLimit
    /\ last.req \in 0..NumReqs

\* ------------------------------------------------------------ properties
\* indices of the messages of request r in the history of thread t
MessagesOf(r, t) ==
    {i \in 1..Len(store[t].messages) : store[t].messages[i].req = r}

\* request r took the step
Stepped(r) == pc'[r] # pc[r] \/ chain'[r] # chain[r] \/ loc'[r] # loc[r]

\* request r returned to its caller in the step
Returned(r) == pc[r] # "done" /\ pc'[r] = "done"

\* a sequence of n blanks
Blanks(n) == [i \in 1..n |-> " "]

\* c is raw without its leading and trailing whitespace
IsTrimOf(c, raw) ==
    /\ c = <<>> \/ (Head(c) \notin Whitespace /\ c[Len(c)] \notin Whitespace)
    /\ \E i, j \in 0..Len(raw) : raw = Blanks(i) \o c \o Blanks(j)

\* C1: when a call returns successfully the session's persisted history
\* holds exactly one turn of it (its question and its answer), and when a
\* call fails nothing of its turn is in the persisted history.
C1_AtomicTurn ==
    (last.req # 0 /\ last.thread \in ThreadIds) =>
        IF last.outcome.ok
        THEN /\ Cardinality({i \in MessagesOf(last.req, last.thread) :
                    store[last.thread].messages[i].type = "human"}) = 1
             /\ Cardinality({i \in MessagesOf(last.req, last.thread) :
                    store[last.thread].messages[i].type = "ai"}) = 1
        ELSE MessagesOf(last.req, last.thread) = {}

\* C2: no update is lost: an answer that is in a session's persisted
\* history is still in it after every step of every call.
C2_NoLostUpdate ==
    [][\A t \in ThreadIds : \A i \in 1..Len(store[t].messages) :
          store[t].messages[i].type = "ai" =>
              \E j \in 1..Len(store'[t].messages) :
                  store'[t].messages[j] = store[t].messages[i]]_vars

\* C3: a step of a call for one thread_id leaves the history and active
\* agent of every other thread_id unchanged.
C3_SessionIsolation ==
    [][\A r \in Reqs : Stepped(r) =>
          \A t \in ThreadIds \ {thread[r], thread'[r]} :
              store'[t] = store[t]]_vars

\* two calls for different thread_ids are in flight together, each after
\* a handoff that was checkpointed under its own thread_id
C3_Witness ==
    \E r1, r2 \in Reqs :
        /\ thread[r1] = "s1" /\ thread[r2] = CliThreadId
        /\ pc[r1] = "agent" /\ pc[r2] = "agent"
        /\ chain[r1] # <<>> /\ chain[r2] # <<>>
        /\ store["s1"] = loc[r1] /\ store[CliThreadId] = loc[r2]

\* C4: the persisted history of every session only grows: each step keeps
\* what was there as a prefix of what is there afterwards.
C4_AppendOnly ==
    [][\A t \in ThreadIds :
          IsPrefix(store[t].messages, store'[t].messages)]_vars

\* C5: a turn never ends in a step-limit error: when the handoffs come back
\* to an agent already visited in the turn, the turn still completes with
\* a (fallback) answer.
C5_BoundedHandoff ==
    (last.req # 0 /\ Len(last.chain) >= RecursionLimit) =>
        \/ last.outcome.ok
        \/ last.raised.kind \in {"capability", "store"}

\* C6: when a turn completes with final agent R the persisted active agent
\* of the session is R (for a session that never handed off the field is
\* unset and R is the default), and a call starts by invoking the active
\* agent persisted in the checkpoint it loaded, not always the default.
C6_StickyRouting ==
    [][\A r \in Reqs :
        /\ (pc[r] = "agent" /\ Returned(r) /\ last'.outcome.ok) =>
              \/ store'[thread[r]].active_agent = last'.outcome.agent_name
              \/ /\ store'[thread[r]].active_agent = "unset"
                 /\ last'.outcome.agent_name = CurriculumVitaeAgent
        /\ (pc[r] = "load" /\ pc'[r] = "input") =>
              loc'[r].active_agent = store[thread[r]].active_agent
        /\ (pc[r] = "input" /\ pc'[r] = "agent"
                /\ loc[r].active_agent # "unset") =>
              cur'[r] = loc[r].active_agent]_vars

\* the history a call loaded ends with an answer of SearchAgent to an
\* earlier call, and the call is about to invoke SearchAgent first
C6_Witness ==
    \E r \in Reqs :
        /\ pc[r] = "agent" /\ chain[r] = <<>> /\ cur[r] = SearchAgent
        /\ Len(loc[r].messages) >= 2
        /\ Last(loc[r].messages) = HumanMessage(r, question[r])
        /\ LET m == loc[r].messages[Len(loc[r].messages) - 1] IN
               m.type = "ai" /\ m.name = SearchAgent /\ m.req # r

\* C7: a call on a thread_id without checkpoint loads an empty history,
\* is not failed for it, and starts with CurriculumVitaeAgent; its first
\* checkpoint creates the session.
C7_DefaultRouting ==
    [][\A r \in Reqs :
        /\ (pc[r] = "load" /\ ~store[thread[r]].exists /\ Stepped(r)) =>
              \/ pc'[r] = "input" /\ loc'[r].messages = <<>>
              \/ last'.req = r /\ last'.raised.kind = "store"
        /\ (pc[r] = "input" /\ pc'[r] = "agent" /\ ~loc[r].exists) =>
              /\ cur'[r] = CurriculumVitaeAgent
              /\ loc'[r].messages = <<HumanMessage(r, question[r])>>
              /\ store'[thread[r]].exists]_vars

\* the first call of a session is about to invoke CurriculumVitaeAgent with
\* a history that holds only its own question
C7_Witness ==
    \E r \in Reqs :
        /\ pc[r] = "agent" /\ chain[r] = <<>>
        /\ cur[r] = CurriculumVitaeAgent
        /\ Len(loc[r].messages) = 1
        /\ store[thread[r]].messages = loc[r].messages

\* C8: a successful call returns the thread_id it was given, the name of
\* the configured agent that produced the last message of the turn, and
\* that message's text without leading and trailing whitespace.
C8_NormalizedResult ==
    [][\A r \in Reqs : (Returned(r) /\ last'.outcome.ok) =>
        LET m == Last(store'[thread[r]].messages) IN
        /\ last'.req = r
        /\ last'.outcome.thread_id = thread[r]
        /\ m.type = "ai" /\ m.req = r
        /\ last'.outcome.agent_name = m.name
        /\ last'.outcome.agent_name \in Agents
        /\ last'.outcome.agent_name = cur[r]
        /\ IsTrimOf(last'.outcome.content, m.content)]_vars

\* a call succeeded after a handoff with an answer that had whitespace
\* around it
C8_Witness ==
    /\ last.req # 0 /\ last.outcome.ok
    /\ last.outcome.agent_name = SearchAgent
    /\ last.chain = <<CurriculumVitaeAgent, SearchAgent>>
    /\ last.outcome.content = <<"x">>
    /\ Last(store[last.thread].messages).content = <<" ", "x", " ">>

\* C9: no call reaches the workflow with a question that is empty after
\* trimming or with an empty thread_id.
C9_InputValidated ==
    \A r \in Reqs : pc[r] \in Running =>
        Strip(question[r]) # NoText /\ thread[r] # ""

C11_DistinguishableFailures ==
    [][(/\ last.path = "rest" /\ last'.path = "rest"
        /\ ~last.outcome.ok /\ ~last'.outcome.ok
        /\ last.outcome.kind \in {"input", "store", "capability"}
        /\ last'.outcome.kind \in {"input", "store", "capability"}
        /\ last.outcome.kind # last'.outcome.kind) =>
           create_error_message(HTTPStatusError(last.outcome.status))
               # create_error_message(HTTPStatusError(last'.outcome.status))]_vars

\* C13: when a capability call or the store fails during a turn (a timeout
\* of the call reaches the workflow as such an exception), nothing of that
\* turn is committed: the session's persisted history holds no message of
\* it, neither its question nor a handoff that changed the active agent.
C13_TimeoutAllOrNothing ==
    (last.req # 0 /\ last.raised.kind \in {"capability", "store"}) =>
        \A i \in 1..Len(store[last.thread].messages) :
            store[last.thread].messages[i].req # last.req

\* C14: the first turn of a session that CurriculumVitaeAgent answers
\* leaves CurriculumVitaeAgent the agent a next call starts with; a turn in
\* which CurriculumVitaeAgent hands off and the agent it handed to answers
\* ends with the answer of SearchAgent, the chain <<CurriculumVitaeAgent,
\* SearchAgent>>, SearchAgent persisted as active agent and exactly one
\* handoff of the turn in the persisted history.
C14_HandoffScenario ==
    [][\A r \in Reqs : (pc[r] = "agent" /\ Returned(r) /\ last'.outcome.ok) =>
        /\ (chain[r] = <<>> /\ Len(loc[r].messages) = 1) =>
              /\ last'.outcome.agent_name = CurriculumVitaeAgent
              /\ last'.chain = <<CurriculumVitaeAgent>>
              /\ Route(store'[thread[r]]) = CurriculumVitaeAgent
        /\ chain[r] = <<CurriculumVitaeAgent>> =>
              /\ last'.chain = <<CurriculumVitaeAgent, SearchAgent>>
              /\ last'.outcome.agent_name = SearchAgent
              /\ store'[thread[r]].active_agent = SearchAgent
              /\ Cardinality({i \in 1..Len(store'[thread[r]].messages) :
                    /\ store'[thread[r]].messages[i].req = r
                    /\ store'[thread[r]].messages[i].type = "handoff"}) = 1]_vars

\* the second turn of a session whose first turn CurriculumVitaeAgent
\* answered: CurriculumVitaeAgent handed off and SearchAgent answered
C14_Witness ==
    /\ last.req # 0 /\ last.outcome.ok
    /\ last.chain = <<CurriculumVitaeAgent, SearchAgent>>
    /\ LET h == store[last.thread].messages IN
        /\ Len(h) = 5
        /\ h[1].type = "human" /\ h[1].req # last.req
        /\ h[2].type = "ai" /\ h[2].name = CurriculumVitaeAgent
        /\ h[3].type = "human" /\ h[3].req = last.req
        /\ h[4].type = "handoff" /\ h[4].name = CurriculumVitaeAgent
        /\ h[5].type = "ai" /\ h[5].name = SearchAgent
    /\ store[last.thread].active_agent = SearchAgent

\* C20: the agent a session is routed to and the agent a run invokes are
\* always CurriculumVitaeAgent or SearchAgent, the handoff target of every
\* agent is one of the two, and both can be reached from the default agent
\* by handoffs.
C20_AgentsClosed ==
    /\ \A t \in ThreadIds :
          /\ store[t].active_agent \in Agents \cup {"unset"}
          /\ Route(store[t]) \in Agents
    /\ \A r \in Reqs : pc[r] = "agent" =>
          /\ cur[r] \in Agents
          /\ Route(loc[r]) \in Agents
          /\ HandoffTarget(cur[r]) \in Agents
    /\ \A a \in Agents : HandoffTarget(a) \in Agents
    /\ ReachableAgents({default_active_agent}) = Agents

\* SearchAgent handed back: the session's active agent was SearchAgent and
\* is CurriculumVitaeAgent again, and the run is about to invoke it
C20_Witness ==
    \E r \in Reqs :
        /\ pc[r] = "agent"
        /\ chain[r] = <<SearchAgent>> /\ cur[r] = CurriculumVitaeAgent
        /\ store[thread[r]].active_agent = CurriculumVitaeAgent

\* C12: a call that finds the store unreachable when it loads the session
\* fails with a store error and leaves every persisted session as it was,
\* and once PostgreSQL can be reached again the calls of the running
\* service no longer fail with a store error.
C12_StoreOutageRecovery ==
    [][\A r \in Reqs :
        /\ (pc[r] = "load" /\ ~StoreOk /\ Stepped(r)) =>
              /\ last'.req = r /\ last'.raised.kind = "store"
              /\ store' = store
        /\ (Returned(r) /\ last'.raised.kind = "store") => db = "down"]_vars

\* C16: a process that has ended has closed the PostgreSQL connection it
\* opened, whatever made it end, and the connection is not closed while a
\* call is running.
C16_ConnectionClosed ==
    /\ phase = "exited" => conn \in {"none", "closed"}
    /\ \A r \in Reqs : pc[r] \in Running => conn \in {"open", "broken"}

\* C17: GET /health changes nothing and answers "healthy" exactly when
\* app_instance is set, "degraded" otherwise; while app_instance is unset
\* POST /chat never enters the workflow: it answers 503 (422 for a request
\* that fails validation) and leaves the store alone.
C17_HealthSurface ==
    [][/\ last'.path = "health" =>
            /\ store' = store /\ pc' = pc /\ loc' = loc
            /\ app_instance' = app_instance /\ conn' = conn
            /\ phase' = phase /\ docs' = docs
            /\ last'.outcome.cause \in {"healthy", "degraded"}
            /\ last'.outcome.cause = "healthy" <=> app_instance = "set"
       /\ \A r \in Reqs :
            (/\ pc[r] = "idle" /\ pc'[r] # "idle" /\ kind = "api"
             /\ HealthResponse.cause = "degraded") =>
                /\ pc'[r] = "done"
                /\ last'.req = r /\ ~last'.outcome.ok
                /\ last'.outcome.status = 503 \/ last'.outcome.kind = "input"
                /\ store' = store]_vars

\* a valid POST /chat was answered 503 because the workflow is not compiled
C17_Witness ==
    /\ kind = "api" /\ app_instance = "None"
    /\ last.path = "rest" /\ last.outcome.status = 503

\* C18: the terminal loop reads lines only while it runs; a line that is
\* 'exit', 'quit' or 'q' after trimming and lower-casing ends the loop
\* without a call of the workflow, a blank line is skipped without one, any
\* other line is processed, and when processing ends, with an answer or
\* with an exception, the loop is still running; only an exit word or a
\* keyboard interrupt ends it.
C18_ReplLoop ==
    [][/\ \A r \in Reqs :
            LET reads == /\ pc[r] = "idle" /\ pc'[r] # "idle"
                         /\ kind \in {"cli", "script"}
            IN  /\ reads => phase = "serving"
                /\ (reads /\ pc'[r] = "load") =>
                      /\ Lower(question'[r]) \notin
                            {<<"e", "x", "i", "t">>, <<"q", "u", "i", "t">>,
                             <<"q">>}
                      /\ question'[r] # NoText
                      /\ phase' = "serving"
                /\ (reads /\ last'.outcome.kind = "exit") =>
                      pc'[r] = "done" /\ phase' = "exited" /\ store' = store
                /\ (reads /\ last'.outcome.cause = "blank") =>
                      pc'[r] = "done" /\ phase' = "serving" /\ store' = store
                /\ (pc[r] \in Running /\ Returned(r)
                        /\ kind \in {"cli", "script"}) =>
                      phase' = "serving"
       /\ (kind \in {"cli", "script"} /\ phase = "serving"
                /\ phase' # "serving") =>
             \/ last'.outcome.kind = "exit"
             \/ last' = NoReturn /\ InFlight = {}]_vars

\* the loop went on after a call of it failed (its question is persisted
\* without an answer) and was then ended by an exit word
C18_Witness ==
    /\ last.req = 2 /\ last.outcome.kind = "exit"
    /\ pc[1] = "done" /\ phase = "exited"
    /\ Len(store[last.thread].messages) = 1
    /\ store[last.thread].messages[1].req = 1

\* C19: load_rag_tool calls add only when the collection holds no
\* documents, and the number of documents changes only from zero.
C19_IdempotentLoad ==
    [][/\ phase' = "add" => docs = 0
       /\ docs' # docs => docs = 0]_vars

\* C21: after a handoff the run goes on in the same turn, without a return
\* to the caller, with the agent the handoff named as active agent, and
\* what that agent is invoked with holds the question that started the
\* turn, unchanged and once, followed only by the turn's handoffs.
C21_HandoffCarriesQuestion ==
    \A r \in Reqs : (pc[r] = "agent" /\ chain[r] # <<>>) =>
        LET h == loc[r].messages
            mine == {i \in 1..Len(h) : h[i].req = r}
        IN  /\ cur[r] = HandoffTarget(Last(chain[r]))
            /\ loc[r].active_agent = cur[r]
            /\ last.req # r
            /\ \E i \in mine :
                  /\ h[i] = HumanMessage(r, question[r])
                  /\ mine = i..Len(h)
                  /\ Len(h) - i = Len(chain[r])
                  /\ \A j \in mine \ {i} :
                        h[j] = HandoffMessage(r, chain[r][j - i])

\* a call of an existing session is about to invoke SearchAgent after the
\* handoff of CurriculumVitaeAgent
C21_Witness ==
    \E r \in Reqs :
        /\ pc[r] = "agent" /\ chain[r] = <<CurriculumVitaeAgent>>
        /\ cur[r] = SearchAgent
        /\ Len(loc[r].messages) = 4
        /\ loc[r].messages[2].type = "ai"
        /\ loc[r].messages[3] = HumanMessage(r, question[r])

\* C22: a turn that reaches the step limit is not failed: its caller gets
\* a successful response, the fallback answer.
C22_FallbackOnBound ==
    last.raised.kind = "recursion" =>
        last.outcome.ok /\ last.outcome.kind = "fallback"

\* C24: the question of a call is given to the workflow once: no history,
\* persisted or held by a run, has it twice, and a call that has returned,
\* also with a failure, does not run again.
C24_NoRetry ==
    /\ \A r \in Reqs : \A t \in ThreadIds :
          Cardinality({i \in MessagesOf(r, t) :
              store[t].messages[i].type = "human"}) <= 1
    /\ \A r \in Reqs :
          Cardinality({i \in 1..Len(loc[r].messages) :
              /\ loc[r].messages[i].req = r
              /\ loc[r].messages[i].type = "human"}) <= 1
    /\ last.req # 0 => pc[last.req] = "done" /\ question[last.req] = NoText

\* a call failed in a capability of the second agent of its turn; its
\* question is in the persisted history once
C24_Witness ==
    /\ last.req # 0 /\ last.raised.kind = "capability"
    /\ Len(last.chain) = 2
    /\ Cardinality({i \in MessagesOf(last.req, last.thread) :
            store[last.thread].messages[i].type = "human"}) = 1

\* C29: when a call completes, its turn is the end of the session's
\* persisted history: its question, the handoffs of the agents consulted in
\* their order, and the answer under the name of the agent that produced
\* it, the last of the chain; every answer before it belongs to a call that
\* completed earlier.
C29_TurnOrder ==
    [][\A r \in Reqs : (pc[r] = "agent" /\ Returned(r) /\ last'.outcome.ok) =>
        LET h == store'[thread[r]].messages
            n == Len(h)
            k == Len(last'.chain)
        IN  /\ k >= 1 /\ n >= k + 1
            /\ h[n].type = "ai" /\ h[n].req = r
            /\ h[n].name = last'.chain[k]
            /\ h[n].name = last'.outcome.agent_name
            /\ \A i \in 1..(k - 1) :
                  h[n - k + i] = HandoffMessage(r, last'.chain[i])
            /\ h[n - k].type = "human" /\ h[n - k].req = r
            /\ \A i \in 1..(n - k - 1) :
                  /\ h[i].req # r
                  /\ h[i].type = "ai" => pc[h[i].req] = "done"]_vars

\* the second turn of a session completed after a handoff, behind the turn
\* of the call that completed before it
C29_Witness ==
    /\ last.req = 2 /\ last.outcome.ok
    /\ last.chain = <<SearchAgent, CurriculumVitaeAgent>>
    /\ LET h == store[last.thread].messages IN
        /\ Len(h) = 6
        /\ h[3].type = "ai" /\ h[3].req = 1 /\ h[3].name = SearchAgent
        /\ h[6].type = "ai" /\ h[6].req = 2

\* C23: whenever a turn ends with an answer of SearchAgent, SearchAgent
\* called its search tool in that turn before it answered.
C23_SearchBeforeAnswer ==
    (last.outcome.ok /\ last.outcome.agent_name = SearchAgent) =>
        "search" \in last.tools

\* C25: the entry paths pass on what process_question produced: for a
\* successful call /chat answers 200 with the agent_name, the content and
\* the thread_id of the ChatResponse built from the last message of the
\* turn, and the terminal loop prints a label with that agent_name and that
\* content.
C25_TransparentShells ==
    (last.req # 0 /\ last.outcome.ok) =>
        LET x == ChatResponse(Last(store[last.thread].messages), last.thread)
        IN  /\ last.path = "rest" =>
                  /\ last.outcome.status = 200
                  /\ last.outcome.agent_name = x.agent_name
                  /\ last.outcome.content = x.content
                  /\ last.outcome.thread_id = x.thread_id
            /\ last.path = "cli" =>
                  /\ AGENT_DISPLAY(last.outcome.agent_name)[1] = x.agent_name
                  /\ last.outcome.content = x.content
            /\ Deliver("rest", x).agent_name = Deliver("cli", x).agent_name
            /\ Deliver("rest", x).content = Deliver("cli", x).content

\* the terminal loop got the answer of SearchAgent to its question and
\* printed it without the whitespace around it
C25_Witness ==
    /\ last.path = "cli" /\ last.outcome.ok
    /\ last.chain = <<CurriculumVitaeAgent, SearchAgent>>
    /\ AGENT_DISPLAY(last.outcome.agent_name) = <<SearchAgent, "(Web Search)">>
    /\ last.outcome.content = <<"x">>
    /\ Last(store[CliThreadId].messages).content = <<" ", "x", " ">>

\* C26: the loop of the standalone script does with every line what the
\* loop of cli.py does with it: it leaves, skips or invokes the workflow
\* with the same trimmed question (under thread_id "1"), it prints the
\* label and the trimmed content that cli.py prints for the same last
\* message, and it goes on after a failed call.
C26_ReplCopiesEquivalent ==
    [][\A r \in Reqs : kind = "script" =>
        /\ (pc[r] = "idle" /\ pc'[r] # "idle") =>
              /\ \A line \in ReplLines :
                    script_decision(line) = cli_decision(line)
              /\ \E line \in ReplLines :
                    LET d == cli_decision(line) IN
                    /\ d.what = "invoke" =>
                          /\ pc'[r] = "load"
                          /\ question'[r] = d.question
                          /\ thread'[r] = ScriptThreadId
                    /\ d.what = "exit" =>
                          last'.outcome.kind = "exit" /\ phase' = "exited"
                    /\ d.what = "skip" =>
                          last'.outcome.cause = "blank" /\ phase' = phase
        /\ (pc[r] = "agent" /\ Returned(r) /\ last'.outcome.ok) =>
              LET x == ChatResponse(Last(store'[thread[r]].messages),
                                    CliThreadId)
              IN  /\ agent_display(last'.outcome.agent_name)
                        = AGENT_DISPLAY(x.agent_name)
                  /\ last'.outcome.content = x.content
        /\ (pc[r] \in Running /\ Returned(r) /\ ~last'.outcome.ok) =>
              phase' = "serving"]_vars

\* the script's loop printed the answer of SearchAgent to its second line
C26_Witness ==
    /\ kind = "script" /\ last.path = "script"
    /\ last.req = 2 /\ last.outcome.ok
    /\ agent_display(last.outcome.agent_name) = <<SearchAgent, "(Web Search)">>
    /\ last.outcome.content = <<"x">>
    /\ Last(store[ScriptThreadId].messages).content = <<" ", "x", " ">>

\* C27: every question of one client goes out under one thread id.  The
\* terminal loop passes "cli-session" with each question; a chat component
\* passes the "session-..." id its thread_id state was initialised with, and
\* that state does not change while the component lives; so the turns of one
\* conversation are written to one session of the store and to no other.
C27_StableSessionId ==
    [][/\ \A r \in Reqs :
            (pc[r] = "idle" /\ pc'[r] # "idle") =>
                /\ (IF pc'[r] = "done" THEN last'.thread ELSE thread'[r])
                       = IF kind = "cli" THEN CliThreadId ELSE ui.thread_id
                /\ kind = "api" =>
                       /\ http'.active /\ http'.req = r
                       /\ http'.thread_id = ui.thread_id
                       /\ ui.thread_id \in SessionIds
       /\ (ui.instance > 0 /\ ui'.instance = ui.instance) =>
              ui'.thread_id = ui.thread_id
       /\ ui'.instance # ui.instance => ui'.thread_id # ui.thread_id
       /\ \A t \in ThreadIds :
            store'[t] # store[t] =>
                /\ kind = "cli" => t = CliThreadId
                /\ kind = "api" => t \in SessionIds
                /\ (kind = "api" /\ ui.instance = 1) => t = ui.thread_id]_vars

\* two questions of one chat component were answered: both turns are in the
\* session of the component's thread id
C27_Witness ==
    /\ ui.instance = 1
    /\ Len(ui.messages) = 4
    /\ ui.messages[2].agent = CurriculumVitaeAgent
    /\ ui.messages[4].agent = CurriculumVitaeAgent
    /\ \E i, j \in 1..Len(store[ui.thread_id].messages) :
          /\ store[ui.thread_id].messages[i].type = "human"
          /\ store[ui.thread_id].messages[i].req = 1
          /\ store[ui.thread_id].messages[j].type = "human"
          /\ store[ui.thread_id].messages[j].req = 2

\* the displayed list alternates user and assistant messages, a question is
\* loading exactly while the last message is the user's, and a request is
\* awaited only while a question is loading
UiPaired ==
    /\ \A i \in 1..Len(ui.messages) :
          ui.messages[i].role = IF i % 2 = 1 THEN "user" ELSE "assistant"
    /\ ui.is_loading <=> (Len(ui.messages) % 2 = 1)
    /\ ui.is_loading <=> (ui.pending_question # None)
    /\ ui.is_loading => ui.pending_question = Last(ui.messages).content
    /\ http.active => ui.is_loading

\* C28: the chat component has at most one question in flight (a send while
\* is_loading, or of blank input, changes nothing), the list of one
\* component only grows, by one message at a time, and every accepted user
\* message is eventually followed by exactly one assistant message (the
\* answer or an error message), with is_loading false and pending_question
\* None again, unless the page is reloaded first.
C28_RequestResponsePairing ==
    /\ []UiPaired
    /\ [][ui'.instance = ui.instance =>
             /\ IsPrefix(ui.messages, ui'.messages)
             /\ Len(ui'.messages) <= Len(ui.messages) + 1]_vars
    /\ \A k \in 1..MaxInstances, n \in 1..MaxUiMessages :
          (ui.instance = k /\ ui.is_loading /\ Len(ui.messages) = n)
              ~> \/ ui.instance # k
                 \/ /\ ~ui.is_loading /\ ui.pending_question = None
                    /\ Len(ui.messages) = n + 1
                    /\ Last(ui.messages).role = "assistant"

\* a question whose request timed out and a question that was answered: each
\* has its one assistant message
C28_Witness ==
    /\ ui.instance = 1
    /\ ~ui.is_loading
    /\ Len(ui.messages) = 4
    /\ ui.messages[1].role = "user"
    /\ ui.messages[2] = ErrorMessage(TimeoutException)
    /\ ui.messages[3].role = "user"
    /\ ui.messages[4] = AssistantMessage(<<"x">>, CurriculumVitaeAgent)
====
